---- MODULE Spec2Model ----
(***************************************************************************)
(* Model of web_scrapping_RSPO.py: the filter stage that builds            *)
(* target_records and the coroutine download_audit_reports(), which walks  *)
(* the target records on one browser page, verifies the first search       *)
(* result, downloads the "Audit Report" attachments and writes             *)
(* download_log.csv.                                                       *)
(*                                                                         *)
(* Texts are sequences of one-character strings, so that str.strip() and   *)
(* the f-string that builds the file name are computed, not assumed.       *)
(* Every awaited Playwright call may raise (timeout or other error); where *)
(* the exception goes is decided by the try blocks of the source.          *)
(***************************************************************************)
EXTENDS Integers, Sequences, FiniteSets, TLC

\* ------------------------------------------------------------------ bounds
MaxCsvRows == 2
MaxAttachments == 2
\* the history counters stop counting here; no run of the script gets there
CounterCap == 2

\* ------------------------------------------------------------------- texts
SP == " "
\* an empty csv cell reads as NaN, an unparsable date as NaT
NaN == <<>>
NaT == <<>>

RECURSIVE LStrip(_)
LStrip(s) == IF s # <<>> /\ Head(s) = SP THEN LStrip(Tail(s)) ELSE s

RECURSIVE RStrip(_)
RStrip(s) ==
    IF s # <<>> /\ s[Len(s)] = SP THEN RStrip(SubSeq(s, 1, Len(s) - 1)) ELSE s

\* str.strip(): leading and trailing whitespace removed
Strip(s) == RStrip(LStrip(s))

DigitChars == <<"0", "1", "2", "3", "4", "5", "6", "7", "8", "9">>

RECURSIVE Dec(_)
\* str(n) for a natural number n
Dec(n) == IF n < 10 THEN <<DigitChars[n + 1]>>
          ELSE Dec(n \div 10) \o <<DigitChars[(n % 10) + 1]>>

RECURSIVE ZFill(_, _)
ZFill(s, w) == IF Len(s) >= w THEN s ELSE ZFill(<<"0">> \o s, w)

\* ------------------------------------------------------------------- dates
\* a datetime is <<year, month, day>>; the time of day is always midnight
START_DATE == <<2025, 4, 1>>
END_DATE == <<2025, 4, 10>>

DateLE(a, b) ==
    \/ a[1] < b[1]
    \/ a[1] = b[1] /\ a[2] < b[2]
    \/ a[1] = b[1] /\ a[2] = b[2] /\ a[3] <= b[3]

MonthNames == <<"Jan", "Feb", "Mar", "Apr", "May", "Jun",
                "Jul", "Aug", "Sep", "Oct", "Nov", "Dec">>

\* pd.to_datetime(cell, format="%d-%b-%Y", errors='coerce'); a cell is
\* <<day, month name, year>>, an unknown month name does not parse
ToDatetime(cell) ==
    IF \E m \in 1..12 : MonthNames[m] = cell[2]
    THEN <<cell[3], CHOOSE m \in 1..12 : MonthNames[m] = cell[2], cell[1]>>
    ELSE NaT

\* license_start.strftime('%Y-%m-%d')
Strftime(d) ==
    ZFill(Dec(d[1]), 4) \o <<"-">> \o ZFill(Dec(d[2]), 2) \o <<"-">>
        \o ZFill(Dec(d[3]), 2)

\* ------------------------------------------------------------ filter stage
CsvIds == {NaN, <<"A">>, <<"A", SP>>, <<"B">>}
CsvDates == {<<2, "Apr", 2025>>, <<11, "Apr", 2025>>, <<2, "Foo", 2025>>}
CsvRow == [id : CsvIds, date : CsvDates]

RECURSIVE SeqsUpTo(_, _)
SeqsUpTo(S, n) ==
    IF n = 0 THEN {<<>>}
    ELSE LET shorter == SeqsUpTo(S, n - 1)
         IN  shorter \cup {Append(s, x) : s \in {t \in shorter : Len(t) = n - 1}, x \in S}

\* df[(date >= START_DATE) & (date <= END_DATE)] on the parsed column;
\* comparisons with NaT are False
InRange(r) == r.date # NaT /\ DateLE(START_DATE, r.date) /\ DateLE(r.date, END_DATE)

NotNull(r) == r.id # NaN /\ r.date # NaT

RECURSIVE DropDuplicates(_)
\* DataFrame.drop_duplicates(): the first occurrence of every row is kept;
\* rows are compared on the cells as they are (the id is not stripped here)
DropDuplicates(s) ==
    IF s = <<>> THEN <<>>
    ELSE LET front == DropDuplicates(SubSeq(s, 1, Len(s) - 1))
             last == s[Len(s)]
         IN  IF \E n \in 1..Len(front) : front[n] = last THEN front
             ELSE Append(front, last)

ParseDates(csv) == [n \in 1..Len(csv) |-> [id |-> csv[n].id, date |-> ToDatetime(csv[n].date)]]

TargetRecords(csv) ==
    DropDuplicates(SelectSeq(SelectSeq(ParseDates(csv), InRange), NotNull))

\* ---------------------------------------------------------------- the page
\* a grid row is the sequence of its cell texts; first_row_cells[5] of the
\* source is cell 6 here (sequences start at 1)
ID_CELL == 5
MIN_CELLS == 6

\* inner_text() of an id cell comes with the cell's padding or without
CellTexts == {<<"A", SP>>, <<"B">>}
Row(n, t) == [c \in 1..n |-> IF c = ID_CELL + 1 THEN t ELSE <<>>]

\* what the grid may show after a search: nothing, a short row, or a full
\* row with any id text (the site decides, not the script)
GridChoices ==
    {<<>>, <<Row(MIN_CELLS - 1, <<>>)>>} \cup {<<Row(MIN_CELLS, t)>> : t \in CellTexts}

\* the record a grid row stands for: its id cell, <<>> when it has none
RowId(r) == IF Len(r) > ID_CELL THEN Strip(r[ID_CELL + 1]) ELSE <<>>

\* ------------------------------------------------------------ the manifest
COLUMNS == <<"Prisma ID", "License Start Date", "File Type", "Filename">>

\* f"{prisma_id}_{license_start.strftime('%Y-%m-%d')}_audit_{j+1}.pdf"
FileName(id, date, jj) ==
    id \o <<"_">> \o Strftime(date) \o <<"_", "a", "u", "d", "i", "t", "_">>
       \o Dec(jj + 1) \o <<".", "p", "d", "f">>

\* the dict appended to download_log: (key, value) pairs in insertion order
LogEntry(id, date, name) ==
    << <<"Prisma ID", id>>,
       <<"License Start Date", Strftime(date)>>,
       <<"File Type", "Audit Report">>,
       <<"Filename", name>> >>

Keys(e) == [n \in 1..Len(e) |-> e[n][1]]
Values(e) == [n \in 1..Len(e) |-> e[n][2]]
Field(e, key) == e[CHOOSE n \in 1..Len(e) : e[n][1] = key][2]

LogPrepend(log, e) == <<e>> \o log

\* download_log.append(entry)
LogAppend(log, e) == Append(log, e)

\* pd.DataFrame(download_log).to_csv(log_path, index=False): the columns are
\* the keys of the dicts; a frame built from an empty list has no columns,
\* so its header line is empty
ToCsv(log) ==
    [exists |-> TRUE,
     header |-> IF log = <<>> THEN <<>> ELSE Keys(log[1]),
     rows |-> [n \in 1..Len(log) |-> Values(log[n])]]

NoFile == [exists |-> FALSE, header |-> <<>>, rows |-> <<>>]

IdMatchesLoose(visible, id) == TRUE

\* visible_po_id != prisma_id is the mismatch test
IdMatches(visible, id) == visible = id

PlaywrightExitLeak(b) == b

\* leaving "async with async_playwright()" stops Playwright and with it the
\* browser it launched, on the normal and on the exceptional exit alike
PlaywrightExit(b) == "closed"

\* ------------------------------------------------------------------- state
VARIABLES
    target_records,   \* the filtered, de-duplicated (id, date) rows
    pc,               \* position in download_audit_reports()
    browser,          \* "none" | "open" | "closed"
    i,                \* position of the current row of iterrows(), from 1
    prisma_id, license_start,
    filename,         \* the file name built at line 153
    grid,             \* rows the page shows
    detail,           \* id of the record whose detail view is open, <<>> if none
    rows, first_row_cells, visible_po_id,
    elements,         \* number of "Audit Report" handles found
    j,                \* enumerate() index of the current handle, from 0
    download_log,
    log_file,         \* download_log.csv in DOWNLOADS_DIR
    saved,            \* files saved, in order: name, origin, and whose documents
    log_origin,       \* history: <<record position, j>> of every log entry
    nav_count, search_count, verify_count, trigger_count,
    seen,             \* history: id text read by the verify step, per record
    opened,           \* history: records whose first row was clicked
    found,            \* history: handles enumerated, per record
    shown,            \* history: <<rows read at line 123>> per record, <<>> before
    download,         \* line 152: <<record position, j + 1>> of the last download that
                      \* arrived, <<>> before the first
    printed,          \* history: kind of the last progress line, per record
    writes            \* history: number of to_csv calls

locals == <<prisma_id, license_start, filename, rows, first_row_cells, visible_po_id, elements, j>>
outputs == <<download_log, log_file, saved, log_origin, writes>>
history == <<nav_count, search_count, verify_count, trigger_count, seen, opened, found, shown, download, printed>>
vars == <<target_records, pc, browser, i, grid, detail, locals, outputs, history>>

N == Len(target_records)

Init ==
    /\ \E csv \in SeqsUpTo(CsvRow, MaxCsvRows) : target_records = TargetRecords(csv)
    /\ pc = "launch"
    /\ browser = "none"
    /\ i = 1
    /\ prisma_id = <<>> /\ license_start = <<>> /\ filename = <<>>
    /\ grid = <<>>
    /\ detail = <<>>
    /\ rows = <<>> /\ first_row_cells = <<>> /\ visible_po_id = <<>>
    /\ elements = 0 /\ j = 0
    /\ download_log = <<>>
    /\ log_file = NoFile
    /\ saved = <<>>
    /\ log_origin = <<>>
    /\ nav_count = [k \in 1..N |-> 0]
    /\ search_count = [k \in 1..N |-> 0]
    /\ verify_count = [k \in 1..N |-> 0]
    /\ trigger_count = [k \in 1..N, c \in 1..MaxAttachments |-> 0]
    /\ seen = [k \in 1..N |-> <<>>]
    /\ opened = {}
    /\ found = [k \in 1..N |-> 0]
    /\ shown = [k \in 1..N |-> <<>>]
    /\ download = <<>>
    /\ printed = [k \in 1..N |-> "none"]
    /\ writes = 0

\* ----------------------------------------------------------------- helpers
Bump(f, x) == [f EXCEPT ![x] = IF @ < CounterCap THEN @ + 1 ELSE @]

\* "continue", or the end of the loop body: iterrows() yields the next row
Continue == i' = i + 1 /\ pc' = "for"

\* an exception that no try block of the coroutine catches leaves the loop
\* and the "async with" block; lines 170-176 are skipped
Escape == pc' = "raised" /\ browser' = PlaywrightExit(browser)

\* the end of one pass of "for j, el in enumerate(elements)"
NextCandidate ==
    IF j + 1 < elements THEN j' = j + 1 /\ pc' = "trigger" /\ i' = i
    ELSE Continue /\ j' = j

Say(kind) == printed' = [printed EXCEPT ![i] = kind]

DownloadFailedOuter == Say("Error") /\ Continue /\ j' = j

DownloadFailedRetry == Say("DownloadFailed") /\ pc' = "trigger" /\ UNCHANGED <<i, j>>

\* lines 163-164: the except of the inner try; the enumerate loop goes on
DownloadFailed == Say("DownloadFailed") /\ NextCandidate

NewFileNameCounted ==
    FileName(prisma_id, license_start, Cardinality({n \in 1..Len(saved) : saved[n].pos = i}))

\* line 153: filename = f"..._audit_{j+1}.pdf"
NewFileName == FileName(prisma_id, license_start, j)

\* ----------------------------------------------------------------- actions
\* lines 93-96: launch the browser, open context and page
Launch ==
    /\ pc = "launch"
    /\ browser' = "open"
    /\ pc' = "for"
    /\ UNCHANGED <<target_records, i, grid, detail, locals, outputs, history>>

\* lines 93-96 raising: nothing was launched, the coroutine ends
LaunchFail ==
    /\ pc = "launch"
    /\ pc' = "raised"
    /\ UNCHANGED <<target_records, browser, i, grid, detail, locals, outputs, history>>

\* lines 98-102: next row of target_records
ForNext ==
    /\ pc = "for" /\ i <= N
    /\ prisma_id' = Strip(target_records[i].id)
    /\ license_start' = target_records[i].date
    /\ Say("Searching")
    /\ pc' = "goto"
    /\ UNCHANGED <<target_records, browser, i, grid, detail, filename, rows, first_row_cells,
                   visible_po_id, elements, j, outputs, nav_count, search_count,
                   verify_count, trigger_count, seen, opened, found, shown, download>>

\* line 98: target_records exhausted
ForEnd ==
    /\ pc = "for" /\ i > N
    /\ pc' = "close"
    /\ UNCHANGED <<target_records, browser, i, grid, detail, locals, outputs, history>>

\* line 103: page.goto succeeded, the page is loaded afresh
Goto ==
    /\ pc = "goto"
    /\ nav_count' = Bump(nav_count, i)
    /\ grid' = <<>>
    /\ detail' = <<>>
    /\ pc' = "wait_grid"
    /\ UNCHANGED <<target_records, browser, i, locals, outputs, search_count,
                   verify_count, trigger_count, seen, opened, found, shown, download, printed>>

\* line 103: page.goto raised (timeout=60000); it is outside the try block
GotoFail ==
    /\ pc = "goto"
    /\ nav_count' = Bump(nav_count, i)
    /\ Escape
    /\ UNCHANGED <<target_records, i, grid, detail, locals, outputs, search_count,
                   verify_count, trigger_count, seen, opened, found, shown, download, printed>>

\* line 104: the grid root appeared
WaitGrid ==
    /\ pc = "wait_grid"
    /\ pc' = "wait_search"
    /\ UNCHANGED <<target_records, browser, i, grid, detail, locals, outputs, history>>

\* line 104: wait_for_selector raised (timeout=30000); outside the try block
WaitGridFail ==
    /\ pc = "wait_grid"
    /\ Escape
    /\ UNCHANGED <<target_records, i, grid, detail, locals, outputs, history>>

\* lines 108-110: the search box was found
WaitSearch ==
    /\ pc = "wait_search"
    /\ pc' = "search"
    /\ UNCHANGED <<target_records, browser, i, grid, detail, locals, outputs, history>>

\* lines 109-112: query_selector returned None
SearchBoxMissing ==
    /\ pc = "wait_search"
    /\ Say("SearchControlMissing")
    /\ Continue
    /\ UNCHANGED <<target_records, browser, grid, detail, locals, outputs, nav_count,
                   search_count, verify_count, trigger_count, seen, opened, found, shown, download>>

TryErrorRetry ==
    /\ pc \in {"wait_search", "search", "rows", "cells", "verify", "open", "enumerate"}
    /\ Say("Error")
    /\ pc' = "goto" /\ i' = i
    /\ UNCHANGED <<target_records, browser, grid, detail, locals, outputs, nav_count,
                   search_count, verify_count, trigger_count, seen, opened, found, shown, download>>

\* lines 166-168: an awaited call inside the try block raised
TryError ==
    /\ pc \in {"wait_search", "search", "rows", "cells", "verify", "open", "enumerate"}
    /\ Say("Error")
    /\ Continue
    /\ UNCHANGED <<target_records, browser, grid, detail, locals, outputs, nav_count,
                   search_count, verify_count, trigger_count, seen, opened, found, shown, download>>

\* lines 115-120: type the id, press Enter, blur, wait 2000 ms; the grid then
\* shows whatever the site rendered
Search ==
    /\ pc = "search"
    /\ search_count' = Bump(search_count, i)
    /\ grid' \in GridChoices
    /\ pc' = "rows"
    /\ UNCHANGED <<target_records, browser, i, detail, locals, outputs, nav_count,
                   verify_count, trigger_count, seen, opened, found, shown, download, printed>>

\* lines 123-126
ReadRows ==
    /\ pc = "rows"
    /\ rows' = grid
    /\ shown' = [shown EXCEPT ![i] = <<grid>>]
    /\ IF grid = <<>>
       THEN Say("NoResults") /\ Continue
       ELSE pc' = "cells" /\ UNCHANGED <<i, printed>>
    /\ UNCHANGED <<target_records, browser, grid, detail, prisma_id, license_start, filename,
                   first_row_cells, visible_po_id, elements, j, outputs, nav_count,
                   search_count, verify_count, trigger_count, seen, opened, found, download>>

\* lines 128-131
ReadCells ==
    /\ pc = "cells"
    /\ first_row_cells' = rows[1]
    /\ IF Len(rows[1]) < MIN_CELLS
       THEN Say("UnexpectedRowFormat") /\ Continue
       ELSE pc' = "verify" /\ UNCHANGED <<i, printed>>
    /\ UNCHANGED <<target_records, browser, grid, detail, prisma_id, license_start, filename, rows,
                   visible_po_id, elements, j, outputs, nav_count, search_count,
                   verify_count, trigger_count, seen, opened, found, shown, download>>

VerifyUnstripped ==
    /\ pc = "verify"
    /\ visible_po_id' = first_row_cells[ID_CELL + 1]
    /\ verify_count' = Bump(verify_count, i)
    /\ seen' = [seen EXCEPT ![i] = visible_po_id']
    /\ IF IdMatches(visible_po_id', prisma_id)
       THEN pc' = "open" /\ UNCHANGED <<i, printed>>
       ELSE Say("IdMismatch") /\ Continue
    /\ UNCHANGED <<target_records, browser, grid, detail, prisma_id, license_start, filename, rows,
                   first_row_cells, elements, j, outputs, nav_count, search_count,
                   trigger_count, opened, found, shown, download>>

\* lines 133-137
Verify ==
    /\ pc = "verify"
    /\ visible_po_id' = Strip(first_row_cells[ID_CELL + 1])
    /\ verify_count' = Bump(verify_count, i)
    /\ seen' = [seen EXCEPT ![i] = visible_po_id']
    /\ IF IdMatches(visible_po_id', prisma_id)
       THEN pc' = "open" /\ UNCHANGED <<i, printed>>
       ELSE Say("IdMismatch") /\ Continue
    /\ UNCHANGED <<target_records, browser, grid, detail, prisma_id, license_start, filename, rows,
                   first_row_cells, elements, j, outputs, nav_count, search_count,
                   trigger_count, opened, found, shown, download>>

\* lines 140-141: click the first row, wait 1500 ms.  The reads of lines
\* 128-133 went to the handles taken at line 123; the click acts on the page:
\* it opens the record that the first row shows when the click arrives
\* (nothing was compared after line 135).  With no first row left the click
\* raises, which is TryError.
Open ==
    /\ pc = "open"
    /\ grid # <<>>
    /\ opened' = opened \cup {i}
    /\ detail' = RowId(grid[1])
    /\ pc' = "enumerate"
    /\ UNCHANGED <<target_records, browser, i, grid, locals, outputs, nav_count,
                   search_count, verify_count, trigger_count, seen, found, shown, download, printed>>

\* lines 143-146
Enumerate ==
    /\ pc = "enumerate"
    /\ \E n \in 0..MaxAttachments :
          /\ elements' = n
          /\ found' = [found EXCEPT ![i] = n]
          /\ IF n = 0
             THEN Say("NoAttachmentsFound") /\ Continue /\ j' = j
             ELSE pc' = "trigger" /\ j' = 0 /\ UNCHANGED <<i, printed>>
    /\ UNCHANGED <<target_records, browser, grid, detail, prisma_id, license_start, filename, rows,
                   first_row_cells, visible_po_id, outputs, nav_count, search_count,
                   verify_count, trigger_count, seen, opened, shown, download>>

\* lines 150-152: click the handle, the download arrived within 5000 ms
Trigger ==
    /\ pc = "trigger"
    /\ trigger_count' = Bump(trigger_count, <<i, j + 1>>)
    /\ download' = <<i, j + 1>>
    /\ pc' = "save"
    /\ UNCHANGED <<target_records, browser, i, grid, detail, locals, outputs, nav_count,
                   search_count, verify_count, seen, opened, found, shown, printed>>

\* lines 150-152 raising (click failed or no download in time), then 163-164
TriggerFail ==
    /\ pc = "trigger"
    /\ trigger_count' = Bump(trigger_count, <<i, j + 1>>)
    /\ DownloadFailed
    /\ UNCHANGED <<target_records, browser, grid, detail, prisma_id, license_start, filename, rows,
                   first_row_cells, visible_po_id, elements, outputs, nav_count,
                   search_count, verify_count, seen, opened, found, shown, download>>

\* lines 153-156: download.save_as(save_path) succeeded
Save ==
    /\ pc = "save"
    /\ filename' = NewFileName
    /\ saved' = Append(saved, [name |-> filename', pos |-> i, idx |-> j + 1,
                               content |-> detail])
    /\ Say("Saved")
    /\ pc' = "append"
    /\ UNCHANGED <<target_records, browser, i, grid, detail, prisma_id, license_start, rows,
                   first_row_cells, visible_po_id, elements, j, download_log, log_file,
                   log_origin, writes, nav_count, search_count, verify_count,
                   trigger_count, seen, opened, found, shown, download>>

SaveFailLogged ==
    /\ pc = "save"
    /\ filename' = NewFileName
    /\ download_log' = LogAppend(download_log, LogEntry(prisma_id, license_start, filename'))
    /\ log_origin' = LogAppend(log_origin, <<i, j + 1>>)
    /\ DownloadFailed
    /\ UNCHANGED <<target_records, browser, grid, detail, prisma_id, license_start, rows,
                   first_row_cells, visible_po_id, elements, log_file, saved, writes,
                   nav_count, search_count, verify_count, trigger_count, seen, opened,
                   found, shown, download>>

\* line 155 raising, then 163-164
SaveFail ==
    /\ pc = "save"
    /\ filename' = NewFileName
    /\ DownloadFailed
    /\ UNCHANGED <<target_records, browser, grid, detail, prisma_id, license_start, rows,
                   first_row_cells, visible_po_id, elements, outputs, nav_count,
                   search_count, verify_count, trigger_count, seen, opened, found, shown, download>>

\* lines 157-162, then the next handle
AppendLog ==
    /\ pc = "append"
    /\ download_log' = LogAppend(download_log, LogEntry(prisma_id, license_start, filename))
    /\ log_origin' = LogAppend(log_origin, <<i, j + 1>>)
    /\ NextCandidate
    /\ UNCHANGED <<target_records, browser, grid, detail, prisma_id, license_start, filename, rows,
                   first_row_cells, visible_po_id, elements, log_file, saved, writes,
                   history>>

\* line 170
Close ==
    /\ pc = "close"
    /\ browser' = "closed"
    /\ pc' = "write"
    /\ UNCHANGED <<target_records, i, grid, detail, locals, outputs, history>>

\* lines 173-176, then the end of the "async with" block
WriteLog ==
    /\ pc = "write"
    /\ log_file' = ToCsv(download_log)
    /\ writes' = writes + 1
    /\ browser' = PlaywrightExit(browser)
    /\ pc' = "done"
    /\ UNCHANGED <<target_records, i, grid, detail, locals, download_log, saved, log_origin,
                   history>>

Next ==
    \/ Launch \/ LaunchFail
    \/ ForNext \/ ForEnd
    \/ Goto \/ GotoFail
    \/ WaitGrid \/ WaitGridFail
    \/ WaitSearch \/ SearchBoxMissing \/ TryError
    \/ Search \/ ReadRows \/ ReadCells \/ Verify \/ Open \/ Enumerate
    \/ Trigger \/ TriggerFail \/ Save \/ SaveFail \/ AppendLog
    \/ Close \/ WriteLog

Spec == Init /\ [][Next]_vars

\* the site re-renders the result grid on its own schedule: the 2000 ms of
\* line 120 and the 1500 ms of line 141 are fixed pauses, not waits for the
\* grid, so a refresh can land anywhere between the search and the click
UiRefresh ==
    /\ pc \in {"rows", "cells", "verify", "open"}
    /\ grid' \in GridChoices \ {grid}
    /\ UNCHANGED <<target_records, pc, browser, i, detail, locals, outputs, history>>

NextAsync == Next \/ UiRefresh

SpecAsync == Init /\ [][NextAsync]_vars

\* one coroutine, run to its end by asyncio.run (line 179): whenever a
\* statement can be executed it is, and every await ends, with its result
\* or with an exception
LiveSpec == Init /\ [][Next]_vars /\ WF_vars(Next)

Terminated == pc \in {"done", "raised"}
SessionOpened == browser # "none"

TypeOK ==
    /\ pc \in {"launch", "for", "goto", "wait_grid", "wait_search", "search", "rows",
               "cells", "verify", "open", "enumerate", "trigger", "save", "append",
               "close", "write", "done", "raised"}
    /\ browser \in {"none", "open", "closed"}
    /\ i \in 1..(N + 1)
    /\ j \in 0..MaxAttachments
    /\ Len(download_log) = Len(log_origin)

\* ------------------------------------------------------------------ claims
Entries(k) == {n \in 1..Len(log_origin) : log_origin[n][1] = k}
Saves(k) == {n \in 1..Len(saved) : saved[n].pos = k}
Triggers(k) == {c \in 1..MaxAttachments : trigger_count[k, c] > 0}
Matched(k) == verify_count[k] = 1 /\ seen[k] = Strip(target_records[k].id)
Triple(n) ==
    <<Field(download_log[n], "Prisma ID"),
      Field(download_log[n], "License Start Date"),
      log_origin[n][2]>>

\* C1: once the session is open, no failure of a record ends the run: the
\* run ends only by finishing the loop, with every record navigated to.
C1_FailureIsolation ==
    (Terminated /\ SessionOpened) =>
        (pc = "done" /\ \A k \in 1..N : nav_count[k] >= 1)

\* C2: a record's first row is clicked only after the verify step of that
\* record read an id text equal to the stripped target id; a record whose
\* verify step did not match gets no click, no download trigger, no saved
\* file and no log entry.
C2_OpenOnlyAfterMatch ==
    \A k \in 1..N :
        /\ k \in opened => Matched(k)
        /\ ~Matched(k) =>
              /\ Triggers(k) = {}
              /\ (download = <<>> \/ download[1] # k)
              /\ Saves(k) = {}
              /\ Entries(k) = {}

C2_Witness ==
    \E k, m \in 1..N :
        /\ k \in opened /\ Saves(k) # {} /\ Entries(k) # {}
        /\ printed[m] = "IdMismatch" /\ m < i

\* C3: when the run has ended, download_log.csv holds a row of record k
\* exactly if a file of record k was saved.
C3_ManifestIffSaved ==
    (Terminated /\ SessionOpened) =>
        \A k \in 1..N :
            (\E n \in 1..Len(log_file.rows) : log_origin[n][1] = k) <=> (Saves(k) # {})

\* C4: when a run that opened the session has ended, download_log.csv was
\* written exactly once and holds every accumulated entry.
C4_WriteOnEveryExit ==
    (Terminated /\ SessionOpened) =>
        /\ writes = 1
        /\ log_file.exists
        /\ log_file.rows = [n \in 1..Len(download_log) |-> Values(download_log[n])]

\* C5: a written download_log.csv always starts with the header Prisma ID,
\* License Start Date, File Type, Filename, also when it has no rows.
C5_HeaderAlways == log_file.exists => log_file.header = COLUMNS

\* C6: records are navigated to in input order, one at a time, and the log
\* is ordered by (record position, attachment index), each entry carrying
\* the id of its record and the file name of its index.
C6_Ordered ==
    /\ \A k \in 1..N : nav_count[k] > 0 => (k <= i /\ \A m \in 1..k : nav_count[m] > 0)
    /\ \A a, b \in 1..Len(download_log) :
          a < b =>
             \/ log_origin[a][1] < log_origin[b][1]
             \/ log_origin[a][1] = log_origin[b][1] /\ log_origin[a][2] < log_origin[b][2]
    /\ \A n \in 1..Len(download_log) :
          LET r == target_records[log_origin[n][1]]
          IN  /\ Field(download_log[n], "Prisma ID") = Strip(r.id)
              /\ Field(download_log[n], "Filename")
                    = FileName(Strip(r.id), r.date, log_origin[n][2] - 1)

C6_Witness ==
    /\ Len(download_log) >= 3
    /\ log_origin[1][1] = log_origin[2][1]
    /\ log_origin[3][1] # log_origin[1][1]

\* C7: the (id, date, index) triples of the log entries are pairwise
\* distinct, so are the file names, and no save goes to a name already
\* saved in this run.
C7_TriplesDistinct ==
    /\ \A a, b \in 1..Len(download_log) :
          a # b => /\ Triple(a) # Triple(b)
                   /\ Field(download_log[a], "Filename") # Field(download_log[b], "Filename")
    /\ \A a, b \in 1..Len(saved) : a # b => saved[a].name # saved[b].name

\* C8: in a record whose handles were enumerated, a failed download or save
\* of one handle leaves the others attempted and the entries of the saved
\* ones in the log, and the run goes on to the next record.
C8_AttachmentIsolation ==
    \A k \in 1..N :
        found[k] > 0 =>
            /\ k < i => /\ Triggers(k) = 1..found[k]
                        /\ {log_origin[n][2] : n \in Entries(k)}
                              = {saved[n].idx : n \in Saves(k)}
            /\ (k < N /\ Terminated) => nav_count[k + 1] = 1

C8_Witness ==
    \E k \in 1..N :
        /\ k < i /\ found[k] = 2
        /\ {log_origin[n][2] : n \in Entries(k)} = {1}
        /\ trigger_count[k, 2] = 1 /\ printed[k] = "DownloadFailed"
        /\ k < N /\ nav_count[k + 1] = 1

\* C9: no step is repeated: per record at most one navigation, one search
\* submission and one verify, and per enumerated handle exactly one download
\* trigger once the record is finished, none for handles that do not exist.
C9_NoRetries ==
    \A k \in 1..N :
        /\ nav_count[k] <= 1 /\ search_count[k] <= 1 /\ verify_count[k] <= 1
        /\ \A c \in 1..MaxAttachments :
              /\ trigger_count[k, c] <= 1
              /\ c > found[k] => trigger_count[k, c] = 0
              /\ (k < i /\ c <= found[k]) => trigger_count[k, c] = 1

C9_Witness ==
    /\ pc = "done"
    /\ \E k, m \in 1..N :
          /\ found[k] = 2 /\ trigger_count[k, 1] = 1 /\ trigger_count[k, 2] = 1
          /\ download = <<k, 2>> /\ Saves(k) = {}
          /\ printed[m] = "IdMismatch" /\ verify_count[m] = 1

\* C10: whenever the run has ended, the browser is not open any more.
C10_SessionReleased == Terminated => browser # "open"

C10_Witness == pc = "raised" /\ SessionOpened /\ browser = "closed" /\ Len(saved) > 0

\* a step that changes download_log appends one entry, and does so at
\* lines 157-162 right after the save of the file the entry names
AppendStep ==
    \/ download_log' = download_log
    \/ /\ pc = "append"
       /\ Len(download_log') = Len(download_log) + 1
       /\ SubSeq(download_log', 1, Len(download_log)) = download_log
       /\ saved # <<>> /\ saved' = saved
       /\ saved[Len(saved)].pos = i /\ saved[Len(saved)].idx = j + 1
       /\ Field(download_log'[Len(download_log')], "Filename") = saved[Len(saved)].name

\* C11: download_log only grows, by one entry per step and only directly
\* after the save of the entry's file succeeded; every entry names a file
\* saved in this run, and a failed trigger or save appends nothing.
C11_AppendOnlyAfterSave ==
    /\ [](\A n \in 1..Len(download_log) :
             \E m \in 1..Len(saved) :
                 /\ saved[m].name = Field(download_log[n], "Filename")
                 /\ <<saved[m].pos, saved[m].idx>> = log_origin[n])
    /\ [](\A k \in 1..N : Cardinality(Entries(k)) <= Cardinality(Saves(k)))
    /\ [][AppendStep]_vars

C11_Witness ==
    \E k \in 1..N :
        /\ k < i /\ found[k] = 2
        /\ trigger_count[k, 1] = 1 /\ trigger_count[k, 2] = 1 /\ download = <<k, 2>>
        /\ {saved[n].idx : n \in Saves(k)} = {2}
        /\ Cardinality(Entries(k)) = 1

\* {id}_{YYYY-MM-DD}_audit_{c}.pdf for handle c (from 1) of record k
AuditName(k, c) ==
    Strip(target_records[k].id) \o <<"_">> \o Strftime(target_records[k].date)
        \o <<"_", "a", "u", "d", "i", "t", "_">> \o Dec(c) \o <<".", "p", "d", "f">>

\* C12: every file is saved, and logged, under the name that carries the
\* 1-based display position of its handle, whatever happened to the handles
\* before it; the handle at that position is the one that was triggered.
C12_IndexIsPosition ==
    /\ \A n \in 1..Len(saved) :
          /\ saved[n].idx \in 1..found[saved[n].pos]
          /\ saved[n].name = AuditName(saved[n].pos, saved[n].idx)
          /\ trigger_count[saved[n].pos, saved[n].idx] = 1
          /\ (n = Len(saved) /\ pc = "append") => download = <<saved[n].pos, saved[n].idx>>
    /\ \A n \in 1..Len(download_log) :
          Field(download_log[n], "Filename") = AuditName(log_origin[n][1], log_origin[n][2])

C12_Witness ==
    \E k, m \in 1..N :
        /\ {saved[n].idx : n \in Saves(k)} = {1, 2}
        /\ {saved[n].idx : n \in Saves(m)} = {2}
        /\ trigger_count[m, 1] = 1
        /\ \E n \in Saves(m) :
              saved[n].name = <<"A", "_", "2", "0", "2", "5", "-", "0", "4", "-", "0", "2",
                                "_", "a", "u", "d", "i", "t", "_", "2", ".", "p", "d", "f">>

\* what record k read at line 123
WasRead(k) == shown[k] # <<>>
NoRows(k) == shown[k] = << <<>> >>
ShortRow(k) == WasRead(k) /\ ~NoRows(k) /\ Len(shown[k][1][1]) < MIN_CELLS
FullRow(k) == WasRead(k) /\ ~NoRows(k) /\ Len(shown[k][1][1]) >= MIN_CELLS
SameId(k) == Strip(shown[k][1][1][ID_CELL + 1]) = Strip(target_records[k].id)

\* C13: per record the steps navigate, search, read rows, verify, open
\* happen in that order, each only after the earlier ones succeeded, and
\* the outcome is that of the first failing check: no rows, then a short
\* first row (the id cell is not read), then a different id; the row is
\* clicked only when all three checks pass.
C13_LocateOrder ==
    \A k \in 1..N :
        /\ search_count[k] >= 1 => nav_count[k] >= 1
        /\ WasRead(k) => search_count[k] >= 1
        /\ verify_count[k] >= 1 => FullRow(k)
        /\ k \in opened => (verify_count[k] >= 1 /\ SameId(k))
        /\ found[k] > 0 => k \in opened
        /\ printed[k] = "NoResults" <=> NoRows(k)
        /\ printed[k] = "UnexpectedRowFormat" => (ShortRow(k) /\ verify_count[k] = 0)
        /\ (ShortRow(k) /\ k < i) => printed[k] \in {"UnexpectedRowFormat", "Error"}
        /\ printed[k] = "IdMismatch" <=> (verify_count[k] >= 1 /\ ~SameId(k))
        /\ (verify_count[k] >= 1 /\ SameId(k) /\ k < i /\ k \notin opened)
              => printed[k] = "Error"

C13_Witness ==
    /\ pc = "done"
    /\ \E k, m \in 1..N :
          /\ printed[k] = "UnexpectedRowFormat" /\ verify_count[k] = 0
          /\ printed[m] = "IdMismatch" /\ m \notin opened
          /\ shown[m][1][1][ID_CELL + 1] = <<"B">> /\ target_records[m].id = <<"A", SP>>

\* C14: with the grid refreshing on its own, no saved file whose name
\* carries the id of record r holds documents of another record (a row
\* without id cell names no record).
C14_NoSilentMismatch ==
    \A n \in 1..Len(saved) :
        /\ saved[n].name = AuditName(saved[n].pos, saved[n].idx)
        /\ saved[n].content \in {<<>>, Strip(target_records[saved[n].pos].id)}

\* C15: the run reaches its end, by finishing (done) or by an exception
\* leaving the coroutine (raised).
C15_Terminates == <>Terminated

C15_Witness ==
    /\ pc = "done" /\ N >= 2
    /\ \A k \in 1..N : nav_count[k] = 1
    /\ \E k \in 1..N : found[k] = 2 /\ Saves(k) # {} /\ Cardinality(Saves(k)) < 2

====
